---- MODULE Spec2Model ----
(***************************************************************************)
(* MneeMart marketplace ledger (contract MneeMart) together with the MNEE  *)
(* token it settles in.  Every external function of the contract is one    *)
(* action up to its external token call; the token's answer to that call   *)
(* (TransferFromReturns, TransferReturns, TokenReverts) finishes the       *)
(* function.  A failed `require` reverts the call: the state is put back   *)
(* to what it was when the call started.                                   *)
(*                                                                         *)
(* uint256 arithmetic is modelled on unbounded naturals: the amounts of    *)
(* the model stay far below 2^256, so no checked-arithmetic revert occurs. *)
(***************************************************************************)
EXTENDS Integers, Sequences, FiniteSets, TLC

\* ------------------------------------------------------------------ bounds
\* Product ids the model lists (productCounter is capped here).
MaxProducts == 2
\* Depth of nested calls into the ledger (1 = no reentrancy in progress).
MaxDepth == 2
\* Transactions the purchase dialog sends of each kind (approvals, purchases).
MaxTxs == 3
\* Checkouts the cart page starts (handleCheckout past its early returns).
MaxRuns == 2
\* The highest block number the chain reaches.
MaxBlocks == 4
\* Fetches the purchase history hook completes.
MaxFetches == 3

\* --------------------------------------------------------------- constants
\* Divisor of the fee calculation (basis points).
BasisPoints == 10000
\* Cap of the platform fee in basis points (max 20%).
MaxFeeBps == 2000

\* ------------------------------------------------------------------ inputs
Accounts == {"owner", "alice", "bob"}
\* The accounts that list products in the model (any account may).
Listers == {"alice", "bob"}
\* address(this): the ledger's own token account (custody).
Mart == "mart"
\* msg.sender of the constructor.
Deployer == "owner"
Holders == Accounts \cup {Mart}
ProductIds == 0..MaxProducts
\* Accounts that grant the ledger an allowance in the model; the others can
\* only fail to pay.
Payers == {"bob", "owner"}
\* _price arguments of listProduct (0 is the invalid one).
Prices == {0, 1000}
\* _newPrice arguments of the price update (0 is the invalid one).
NewPrices == {0, 7}
\* _cid and _name arguments ("" is the invalid one).
Cids == {"", "Qm"}
Names == {"", "ebook"}
\* _platformFeePercentage given to the constructor (10%), and setFeeRate arguments.
FeeRates == {1000}
RateArgs == {2000, 2500}
\* amounts passed to the token's approve.
ApproveAmounts == {1000}
\* Token balances at deployment: enough for one product, not for two.
InitialBalance == [h \in Holders |-> IF h = Mart THEN 0 ELSE 1500]

VARIABLES
    mneeToken,              \* the token the ledger was deployed with: "plain" (an
                            \* ERC-20 that calls nobody) or "hooks" (its transfers
                            \* may call back into the ledger before returning)
    platformFeePercentage,  \* basis points
    productCounter,
    platformBalance,        \* accumulated platform fees
    products,               \* id -> Product
    sellers,                \* address -> Seller
    hasPurchased,           \* buyer -> productId -> bool
    productPurchasers,      \* productId -> sequence of buyers
    events,                 \* the contract's event log
    balanceOf,              \* token: holder -> balance
    allowance,              \* token: owner -> allowance granted to the ledger
    stack,                  \* ledger calls in progress, innermost last
    last,                   \* the ledger call that finished most recently
    owner,                  \* Ownable: the account onlyOwner admits
    modal,                  \* the buyer's purchase dialog (PurchaseModal)
    cart,                   \* the cart provider and the browser's localStorage
    checkout,               \* the cart page's batch checkout (CartPage)
    feed                    \* the purchase history hook (usePurchases)

ledgerVars == <<platformFeePercentage, productCounter, platformBalance, products,
                sellers, hasPurchased, productPurchasers, events>>
tokenVars == <<balanceOf, allowance>>
vars == <<mneeToken, platformFeePercentage, productCounter, platformBalance, products,
          sellers, hasPurchased, productPurchasers, events, balanceOf, allowance,
          stack, last, owner, modal, cart, checkout, feed>>
\* State of the web client; no function of the ledger touches it.
clientVars == <<modal, cart, checkout, feed>>

\* Martowner = msg.sender of the constructor, never reassigned.
Martowner == Deployer
\* A storage slot never written reads as zero.
NoProduct == [id |-> 0, seller |-> "", cid |-> "", price |-> 0, name |-> "",
              active |-> FALSE, salesCount |-> 0]
NoSeller == [productIds |-> <<>>, totalSales |-> 0, balance |-> 0, totalEarnings |-> 0]

\* Everything a revert restores: the contract's storage and log, and the token's.
World == [platformFeePercentage |-> platformFeePercentage,
          productCounter |-> productCounter,
          platformBalance |-> platformBalance,
          products |-> products,
          sellers |-> sellers,
          hasPurchased |-> hasPurchased,
          productPurchasers |-> productPurchasers,
          events |-> events,
          balanceOf |-> balanceOf,
          allowance |-> allowance]

\* The log, read as an indexer reads it: per event name, in emission order.
EventNames == {"ProductListed", "ProductPurchased", "SellerWithdrawal", "PlatformWithdrawal"}

\* Mutant: the log keeps only the latest record of each event.
EmitKeepsLatest(name, record) == [events EXCEPT ![name] = <<record>>]

Emit(name, record) == [events EXCEPT ![name] = Append(@, record)]

Top == stack[Len(stack)]
Pop == SubSeq(stack, 1, Len(stack) - 1)

\* A call may start as a transaction of its own, or from inside a token hook.
CanCall ==
    \/ stack = <<>>
    \/ mneeToken = "hooks" /\ stack # <<>> /\ Len(stack) < MaxDepth

Finished(fn, sender, pid, status) ==
    last' = [fn |-> fn, status |-> status]

\* A require that fails before the call changed anything.
Rejected(fn, sender, pid, status) ==
    /\ Finished(fn, sender, pid, status)
    /\ UNCHANGED <<mneeToken, ledgerVars, tokenVars, stack, owner, clientVars>>

\* Mutant: the failure is reported without undoing the call's writes.
RevertKeepsWrites(status) ==
    /\ stack' = Pop
    /\ Finished(Top.fn, Top.sender, Top.pid, status)
    /\ UNCHANGED <<mneeToken, ledgerVars, tokenVars, owner, clientVars>>

\* A require that fails after the external call: the whole call is undone.
Revert(status) ==
    /\ platformFeePercentage' = Top.saved.platformFeePercentage
    /\ productCounter' = Top.saved.productCounter
    /\ platformBalance' = Top.saved.platformBalance
    /\ products' = Top.saved.products
    /\ sellers' = Top.saved.sellers
    /\ hasPurchased' = Top.saved.hasPurchased
    /\ productPurchasers' = Top.saved.productPurchasers
    /\ events' = Top.saved.events
    /\ balanceOf' = Top.saved.balanceOf
    /\ allowance' = Top.saved.allowance
    /\ stack' = Pop
    /\ Finished(Top.fn, Top.sender, Top.pid, status)
    /\ UNCHANGED <<mneeToken, owner, clientVars>>

Frame(fn, sender, pid, amount, platformFee, sellerAmount) ==
    [fn |-> fn, sender |-> sender, pid |-> pid, amount |-> amount,
     platformFee |-> platformFee, sellerAmount |-> sellerAmount, saved |-> World]

\* `undefined`: the data of a read that has not answered, the hash of a write
\* that has not been signed.
Undefined == 0 - 1

\* The purchase dialog before it is opened for the first time.
\*   step        useState<Step>
\*   allowance   data of useReadContract(allowance)
\*   asked       the approve the wallet is asked to sign (isApprovePending)
\*   approveHash data of writeApprove: index in `sent` of the approve last signed
\*   timer       the setTimeout of the second approve is pending
\*   sent        approve transactions signed, in nonce order
\*   minedUpTo   how many of them have a receipt
\*   purchases   one entry per call of writePurchase: the on-chain allowance
\*               at that moment
ModalClosed == [isOpen |-> FALSE, step |-> "initial", allowance |-> Undefined,
                asked |-> "none", approveHash |-> Undefined, timer |-> FALSE,
                sent |-> <<>>, minedUpTo |-> 0, purchases |-> <<>>]

\* The wallets the browser has known, and `undefined` for no wallet connected.
CartWallets == {"alice", "bob"}
NoWallet == "none"

\* CartProvider at its first render (useState([]), useState(true), no wallet
\* connected, localStorage empty), both effects still to run.
\*   address    useAccount().address of the committed render
\*   items      the items of the committed render, in cart order
\*   isLoading  of the committed render
\*   storage    localStorage per wallet key: <<>> for null, else <<text>>
\*   effects    the effects of the committed render still to run, in
\*              declaration order
\*   queued     the state the effects have set for the next render: <<>> for
\*              none, else <<[items, isLoading]>>
CartMounted == [address |-> NoWallet, items |-> <<>>, isLoading |-> TRUE,
                storage |-> [w \in CartWallets |-> <<>>],
                effects |-> <<"load", "save">>, queued |-> <<>>]

\* CartPage at its first render: lines 44-47 and the wagmi hooks of 50-89.
\*   checkoutStep, currentItemIndex, purchasedItems   the useState values
\*   allowance, balance   the data of the two reads (Undefined: no answer yet)
\*   approveAsked    the approve the wallet is asked to sign: <<>> for none,
\*                   else <<[owner, amount, thenAmount]>> (thenAmount: the
\*                   approve its onSuccess asks for, Undefined for none)
\*   approveTxHash   data of writeApprove: an index into approveSent
\*   approveSent     the approve transactions signed, in nonce order, each
\*                   with the run that asked for it
\*   approveMined    how many of them have a receipt
\*   purchaseAsked   the purchase the wallet is asked to sign: <<>> or <<tx>>
\*   purchaseTxHash  data of writePurchase: an index into purchaseSent
\*   purchaseSent    the purchase transactions signed
\*   runs            how many times handleCheckout has started a checkout
\*   submitted       one entry per call of writePurchase: the run, the index
\*                   and product, the sender, whether the ledger already held
\*                   the sender's purchase of the product, how many signed
\*                   purchases had no receipt yet, and whether the purchase
\*                   of the item before it had its receipt
CheckoutIdle == [checkoutStep |-> "idle", currentItemIndex |-> 0, purchasedItems |-> <<>>,
                 allowance |-> Undefined, balance |-> Undefined,
                 approveAsked |-> <<>>, approveTxHash |-> Undefined,
                 approveSent |-> <<>>, approveMined |-> 0,
                 purchaseAsked |-> <<>>, purchaseTxHash |-> Undefined,
                 purchaseSent |-> <<>>, runs |-> 0, submitted |-> <<>>]
\* usePurchases at its first render (lines 56-65), with the chain it reads and
\* the localStorage marker of the connected wallet.
\*   purchases, hasNewPurchases   the useState values
\*   productCounter   the data of the productCounter read (Undefined: none yet)
\*   lastSeen    the stored marker: <<>> for none, else <<[block, tx]>>
\*   head        the number of the latest block
\*   blockOf     the block of each ProductPurchased log entry, in log order
\*   open        the latest block can still take another transaction
\*   fetches     fetches completed; strategy: what produced the last result
\*   owned       the products the ledger said the wallet held when the last
\*               fetch completed
\*   marked, seenLog   a mark-as-seen happened, and the latest log entry among
\*               the records it marked
FeedMounted == [purchases |-> <<>>, hasNewPurchases |-> FALSE, productCounter |-> Undefined,
                lastSeen |-> <<>>, head |-> 0, blockOf |-> <<>>, open |-> FALSE,
                fetches |-> 0, strategy |-> "none", owned |-> {},
                marked |-> FALSE, seenLog |-> 0]

\* Mutant: the constructor accepts any rate.
ValidRatesUnchecked(rates) == rates

\* require(_platformFeePercentage <= 2000): construction with another rate fails.
ValidRates(rates) == {r \in rates : r <= MaxFeeBps}

\* The state after construction with the given token and one of the given rates.
Constructed(token, rates, balances) ==
    /\ mneeToken = token
    /\ platformFeePercentage \in ValidRates(rates)
    /\ productCounter = 0
    /\ platformBalance = 0
    /\ products = [i \in ProductIds |-> NoProduct]
    /\ sellers = [a \in Accounts |-> NoSeller]
    /\ hasPurchased = [a \in Accounts |-> [i \in ProductIds |-> FALSE]]
    /\ productPurchasers = [i \in ProductIds |-> <<>>]
    /\ events = [e \in EventNames |-> <<>>]
    /\ balanceOf = balances
    /\ allowance = [a \in Accounts |-> 0]
    /\ stack = <<>>
    /\ last = [fn |-> "constructor", status |-> "ok"]
    /\ owner = Deployer
    /\ modal = ModalClosed
    /\ cart = CartMounted
    /\ checkout = CheckoutIdle
    /\ feed = FeedMounted

Init == Constructed("plain", FeeRates, InitialBalance)

\* ------------------------------------------------------------- listProduct
\* Mutant: any price is accepted.
PriceValidUnchecked(price) == TRUE

\* require(_price > 0)
PriceValid(price) == price > 0

\* Mutant: the id counter is advanced before the arguments are validated,
\* and a failed validation does not take it back.
ListProductCountsFailures(sender, cid, price, name) ==
    /\ CanCall
    /\ productCounter < MaxProducts
    /\ productCounter' = productCounter + 1
    /\ IF cid = "" \/ ~PriceValid(price) \/ name = "" THEN
         /\ Finished("listProduct", sender, 0, "InvalidPrice")
         /\ UNCHANGED <<products, sellers, events>>
       ELSE
         /\ products' = [products EXCEPT ![productCounter + 1] =
                [id |-> productCounter + 1, seller |-> sender, cid |-> cid,
                 price |-> price, name |-> name, active |-> TRUE, salesCount |-> 0]]
         /\ sellers' = [sellers EXCEPT ![sender].productIds = Append(@, productCounter + 1)]
         /\ events' = Emit("ProductListed", [productId |-> productCounter + 1,
                                              seller |-> sender, cid |-> cid, price |-> price])
         /\ Finished("listProduct", sender, productCounter + 1, "ok")
    /\ UNCHANGED <<mneeToken, platformFeePercentage, platformBalance, hasPurchased,
                   productPurchasers, tokenVars, stack, owner, clientVars>>

ListProduct(sender, cid, price, name) ==
    /\ CanCall
    /\ IF cid = "" THEN Rejected("listProduct", sender, 0, "InvalidContentPointer")
       ELSE IF ~PriceValid(price) THEN Rejected("listProduct", sender, 0, "InvalidPrice")
       ELSE IF name = "" THEN Rejected("listProduct", sender, 0, "InvalidDisplayName")
       ELSE
         /\ productCounter < MaxProducts
         /\ productCounter' = productCounter + 1
         /\ products' = [products EXCEPT ![productCounter + 1] =
                [id |-> productCounter + 1, seller |-> sender, cid |-> cid,
                 price |-> price, name |-> name, active |-> TRUE, salesCount |-> 0]]
         /\ sellers' = [sellers EXCEPT ![sender].productIds = Append(@, productCounter + 1)]
         /\ events' = Emit("ProductListed", [productId |-> productCounter + 1,
                                              seller |-> sender, cid |-> cid, price |-> price])
         /\ Finished("listProduct", sender, productCounter + 1, "ok")
         /\ UNCHANGED <<mneeToken, platformFeePercentage, platformBalance, hasPurchased,
                        productPurchasers, tokenVars, stack, owner, clientVars>>

\* --------------------------------------------------------- purchaseProduct
\* Mutant: the fee is taken in percent of a basis-point rate.
PlatformFeePercent(price, rate) == (price * rate) \div 100

\* platformFee = (product.price * platformFeePercentage) / 10000
PlatformFee(price, rate) == (price * rate) \div BasisPoints

\* Mutant: the seller is credited the full price.
SellerAmountFullPrice(price, platformFee) == price

\* sellerAmount = product.price - platformFee
SellerAmount(price, platformFee) == price - platformFee

\* Mutant: the token's return value is not checked.
RequireTransferUnchecked(ret) == TRUE

\* require(mneeToken.transferFrom(...)) / require(mneeToken.transfer(...))
RequireTransfer(ret) == ret

\* Mutant: no existence check.
ProductExistsUnchecked(product) == TRUE

\* product.id != 0
ProductExists(product) == product.id # 0

\* Mutant: no self-purchase check.
IsOwnProductUnchecked(product, sender) == FALSE

\* product.seller == msg.sender
IsOwnProduct(product, sender) == product.seller = sender

\* Mutant: no check of an earlier purchase.
AlreadyPurchasedUnchecked(sender, pid) == FALSE

\* Mutant: a product is sold once, to whoever buys first.
AlreadyPurchasedByAnyone(sender, pid) == \E a \in Accounts : hasPurchased[a][pid]

\* hasPurchased[msg.sender][_productId]
AlreadyPurchased(sender, pid) == hasPurchased[sender][pid]

\* Mutant: the purchase fact is written by assigning the whole mapping.
RecordPurchaseOverwrites(buyer, pid) ==
    [a \in Accounts |-> [i \in ProductIds |-> a = buyer /\ i = pid]]

\* hasPurchased[msg.sender][_productId] = true
RecordPurchase(buyer, pid) == [hasPurchased EXCEPT ![buyer][pid] = TRUE]

\* Mutant: the balance is not zeroed before the transfer.
ZeroBalanceSkipped(sender) == sellers

\* Mutant: the seller record is deleted instead of its balance being zeroed.
ZeroBalanceDeletesSeller(sender) == [sellers EXCEPT ![sender] = NoSeller]

\* sellers[msg.sender].balance = 0
ZeroBalance(sender) == [sellers EXCEPT ![sender].balance = 0]

\* Lines 90-102: the checks, the fee split, and the call of transferFrom.
PurchaseProduct(sender, pid) ==
    LET product == products[pid]
        platformFee == PlatformFee(product.price, platformFeePercentage)
    IN
    /\ CanCall
    /\ IF ~ProductExists(product) THEN Rejected("purchaseProduct", sender, pid, "ProductNotFound")
       ELSE IF ~product.active THEN Rejected("purchaseProduct", sender, pid, "ProductInactive")
       ELSE IF IsOwnProduct(product, sender) THEN Rejected("purchaseProduct", sender, pid, "SelfPurchase")
       ELSE IF AlreadyPurchased(sender, pid) THEN Rejected("purchaseProduct", sender, pid, "AlreadyOwned")
       ELSE
         /\ stack' = Append(stack, Frame("purchaseProduct", sender, pid, product.price,
                                         platformFee, SellerAmount(product.price, platformFee)))
         /\ UNCHANGED <<mneeToken, ledgerVars, tokenVars, last, owner, clientVars>>

\* The token's transferFrom(buyer, ledger, amount) returns; lines 101-119.
\* It returns true only after moving exactly `amount`.
TransferFromReturns(ret) ==
    /\ stack # <<>>
    /\ Top.fn = "purchaseProduct"
    /\ LET f == Top
           product == products[f.pid]
           moved == IF ret THEN [balanceOf EXCEPT ![f.sender] = @ - f.amount,
                                                  ![Mart] = @ + f.amount]
                           ELSE balanceOf
       IN
       /\ ret => (balanceOf[f.sender] >= f.amount /\ allowance[f.sender] >= f.amount)
       /\ IF RequireTransfer(ret) THEN
            /\ balanceOf' = moved
            /\ allowance' = IF ret THEN [allowance EXCEPT ![f.sender] = @ - f.amount]
                                   ELSE allowance
            /\ sellers' = [sellers EXCEPT
                              ![product.seller].balance = @ + f.sellerAmount,
                              ![product.seller].totalSales = @ + 1,
                              ![product.seller].totalEarnings = @ + f.sellerAmount]
            /\ platformBalance' = platformBalance + f.platformFee
            /\ hasPurchased' = RecordPurchase(f.sender, f.pid)
            /\ productPurchasers' = [productPurchasers EXCEPT ![f.pid] = Append(@, f.sender)]
            /\ products' = [products EXCEPT ![f.pid].salesCount = @ + 1]
            /\ events' = Emit("ProductPurchased",
                                 [productId |-> f.pid, buyer |-> f.sender,
                                  seller |-> product.seller, price |-> product.price,
                                  platformFee |-> f.platformFee])
            /\ stack' = Pop
            /\ Finished("purchaseProduct", f.sender, f.pid, "ok")
            /\ UNCHANGED <<mneeToken, platformFeePercentage, productCounter, owner, clientVars>>
          ELSE Revert("PaymentFailed")

\* --------------------------------------------------- withdrawSellerBalance
\* Lines 124-130: read, check, zero the balance, call transfer.
WithdrawSellerBalance(sender) ==
    LET amount == sellers[sender].balance IN
    /\ CanCall
    /\ IF amount = 0 THEN Rejected("withdrawSellerBalance", sender, 0, "NothingToWithdraw")
       ELSE
         /\ sellers' = ZeroBalance(sender)
         /\ stack' = Append(stack, Frame("withdrawSellerBalance", sender, 0, amount, 0, 0))
         /\ UNCHANGED <<mneeToken, platformFeePercentage, productCounter, platformBalance,
                        products, hasPurchased, productPurchasers, events, tokenVars, last,
                        owner, clientVars>>

\* ---------------------------------------------------- withdrawPlatformFees
\* Mutant: the caller is checked against Martowner (modifier onlyMartOwner).
OnlyOwnerIsMartowner(sender) == sender = Martowner

\* modifier onlyOwner of Ownable: msg.sender == owner()
OnlyOwner(sender) == sender = owner

\* Mutant: the fees are sent to the caller.
RecipientIsCaller(f) == f.sender

\* The recipient of the outbound transfer: msg.sender (line 130), Martowner (line 145).
Recipient(f) == IF f.fn = "withdrawSellerBalance" THEN f.sender ELSE Martowner

WithdrawPlatformFees(sender) ==
    LET amount == platformBalance IN
    /\ CanCall
    /\ IF ~OnlyOwner(sender) THEN Rejected("withdrawPlatformFees", sender, 0, "NotPlatformOwner")
       ELSE IF amount = 0 THEN Rejected("withdrawPlatformFees", sender, 0, "NothingToWithdraw")
       ELSE
         /\ platformBalance' = 0
         /\ stack' = Append(stack, Frame("withdrawPlatformFees", sender, 0, amount, 0, 0))
         /\ UNCHANGED <<mneeToken, platformFeePercentage, productCounter, products, sellers,
                        hasPurchased, productPurchasers, events, tokenVars, last,
                        owner, clientVars>>

\* The token's transfer(recipient, amount) returns; lines 129-134 and 144-149.
TransferReturns(ret) ==
    /\ stack # <<>>
    /\ Top.fn \in {"withdrawSellerBalance", "withdrawPlatformFees"}
    /\ LET f == Top
           to == Recipient(f)
       IN
       /\ ret => balanceOf[Mart] >= f.amount
       /\ IF RequireTransfer(ret) THEN
            /\ balanceOf' = IF ret THEN [balanceOf EXCEPT ![Mart] = @ - f.amount,
                                                          ![to] = @ + f.amount]
                                   ELSE balanceOf
            /\ events' = IF f.fn = "withdrawSellerBalance"
                          THEN Emit("SellerWithdrawal", [seller |-> f.sender, amount |-> f.amount])
                          ELSE Emit("PlatformWithdrawal", [owner |-> Martowner, amount |-> f.amount])
            /\ stack' = Pop
            /\ Finished(f.fn, f.sender, 0, "ok")
            /\ UNCHANGED <<mneeToken, platformFeePercentage, productCounter, platformBalance,
                           products, sellers, hasPurchased, productPurchasers, allowance,
                           owner, clientVars>>
          ELSE Revert("WithdrawalFailed")

\* The token call itself reverts: the revert propagates through the ledger call.
TokenReverts ==
    /\ stack # <<>>
    /\ Revert(IF Top.fn = "purchaseProduct" THEN "PaymentFailed" ELSE "WithdrawalFailed")

\* ------------------------------------------------------------------- token
\* approve(ledger, amount) by a token holder, as a transaction of its own.
Approve(sender, amount) ==
    /\ stack = <<>>
    /\ allowance' = [allowance EXCEPT ![sender] = amount]
    /\ UNCHANGED <<mneeToken, ledgerVars, balanceOf, stack, last, owner, clientVars>>

\* ------------------------------------ functions of the deployed contract
\* activateProduct / deactivateProduct
SetActive(sender, pid, active) ==
    LET product == products[pid] IN
    /\ CanCall
    /\ IF product.id = 0 THEN Rejected("setActive", sender, pid, "ProductNotFound")
       ELSE IF product.seller # sender THEN Rejected("setActive", sender, pid, "NotOwner")
       ELSE IF product.active = active THEN Rejected("setActive", sender, pid, "NoStateChange")
       ELSE
         /\ products' = [products EXCEPT ![pid].active = active]
         /\ Finished("setActive", sender, pid, "ok")
         /\ UNCHANGED <<mneeToken, platformFeePercentage, productCounter, platformBalance,
                        sellers, hasPurchased, productPurchasers, events, tokenVars, stack,
                        owner, clientVars>>

\* updateProductPrice
SetPrice(sender, pid, newPrice) ==
    LET product == products[pid] IN
    /\ CanCall
    /\ IF product.id = 0 THEN Rejected("setPrice", sender, pid, "ProductNotFound")
       ELSE IF product.seller # sender THEN Rejected("setPrice", sender, pid, "NotOwner")
       ELSE IF ~PriceValid(newPrice) THEN Rejected("setPrice", sender, pid, "InvalidPrice")
       ELSE
         /\ products' = [products EXCEPT ![pid].price = newPrice]
         /\ Finished("setPrice", sender, pid, "ok")
         /\ UNCHANGED <<mneeToken, platformFeePercentage, productCounter, platformBalance,
                        sellers, hasPurchased, productPurchasers, events, tokenVars, stack,
                        owner, clientVars>>

SetFeeRate(sender, newRateBps) ==
    /\ CanCall
    /\ IF ~OnlyOwner(sender) THEN Rejected("setFeeRate", sender, 0, "NotPlatformOwner")
       ELSE IF newRateBps > MaxFeeBps THEN Rejected("setFeeRate", sender, 0, "FeeTooHigh")
       ELSE
         /\ platformFeePercentage' = newRateBps
         /\ Finished("setFeeRate", sender, 0, "ok")
         /\ UNCHANGED <<mneeToken, productCounter, platformBalance, products, sellers,
                        hasPurchased, productPurchasers, events, tokenVars, stack,
                        owner, clientVars>>

\* Ownable.transferOwnership(newOwner), inherited: the owner hands the role on.
TransferOwnership(sender, newOwner) ==
    /\ stack = <<>>
    /\ IF ~OnlyOwner(sender) THEN Rejected("transferOwnership", sender, 0, "NotPlatformOwner")
       ELSE
         /\ owner' = newOwner
         /\ Finished("transferOwnership", sender, 0, "ok")
         /\ UNCHANGED <<mneeToken, ledgerVars, tokenVars, stack, clientVars>>

\* ------------------------------------------------- PurchaseModal (web client)
\* The connected account, and the price prop of the dialog.
ModalBuyer == "bob"
ModalPrice == 1000
\* Allowances the buyer granted before opening the dialog.
ModalAllowances == {0, 400, 1000}

\* needsApproval = allowance !== undefined && allowance < price
NeedsApproval(m) == m.allowance # Undefined /\ m.allowance < ModalPrice

\* hasExistingAllowance = allowance !== undefined && allowance > 0n && allowance < price
HasExistingAllowance(m) ==
    m.allowance # Undefined /\ m.allowance > 0 /\ m.allowance < ModalPrice

\* approvalConfirmed: the receipt of the transaction approveHash names has arrived.
ApprovalConfirmed(m) == m.approveHash # Undefined /\ m.approveHash <= m.minedUpTo

\* handleApprove: approve(0) first when an allowance exists, else the amount.
HandleApprove(m) ==
    [m EXCEPT !.step = "approving",
              !.asked = IF HasExistingAllowance(m) THEN "zero" ELSE "amount",
              !.approveHash = Undefined]

\* handlePurchase: writePurchase(purchaseProduct(productId)).
HandlePurchase(m) ==
    [m EXCEPT !.step = "purchasing",
              !.purchases = Append(@, [onchain |-> allowance[ModalBuyer],
                                       afterZero |-> /\ m.minedUpTo > 0
                                                     /\ m.sent[m.minedUpTo] = "zero"])]

ModalStep(m) ==
    /\ stack = <<>>
    /\ modal' = m
    /\ UNCHANGED <<mneeToken, ledgerVars, tokenVars, stack, last, owner, cart, checkout,
                   feed>>

\* The buyer granted an allowance some time before opening the dialog.
ExistingAllowance(amount) ==
    /\ ~modal.isOpen
    /\ modal.sent = <<>>
    /\ modal.purchases = <<>>
    /\ Approve(ModalBuyer, amount)

\* isOpen becomes true: lines 115-122.
OpenModal ==
    /\ ~modal.isOpen
    /\ ModalStep([modal EXCEPT !.isOpen = TRUE, !.step = "initial",
                                !.asked = "none", !.approveHash = Undefined])

\* onClose (Cancel; the dialog cannot be closed while processing).
CloseModal ==
    /\ modal.isOpen
    /\ modal.step \in {"initial", "success"}
    /\ ModalStep([modal EXCEPT !.isOpen = FALSE])

\* The allowance read answers (first fetch or refetch).
AllowanceFetched ==
    /\ modal.isOpen
    /\ ModalStep([modal EXCEPT !.allowance = allowance[ModalBuyer]])

\* handleStartPurchase ("Confirm Purchase"); the buyer's balance suffices.
HandleStartPurchase ==
    /\ modal.isOpen
    /\ modal.step = "initial"
    /\ modal.asked = "none"
    /\ Len(modal.purchases) < MaxTxs
    /\ ModalStep(IF NeedsApproval(modal) THEN HandleApprove(modal)
                                         ELSE HandlePurchase(modal))

\* The wallet signs the approve it was asked for: the hash is returned and
\* onSuccess runs (after approve(0): setTimeout of the second approve).
WalletSigns ==
    /\ modal.asked # "none"
    /\ Len(modal.sent) < MaxTxs
    /\ ModalStep([modal EXCEPT !.sent = Append(@, modal.asked),
                                !.approveHash = Len(modal.sent) + 1,
                                !.asked = "none",
                                !.timer = (modal.asked = "zero")])

\* The wallet refuses the approve: onError.
WalletRejects ==
    /\ modal.asked # "none"
    /\ ModalStep([modal EXCEPT !.asked = "none", !.step = "initial"])

\* The 500 ms timer fires: writeApprove(approvalAmount).
TimerFires ==
    /\ modal.timer
    /\ ModalStep([modal EXCEPT !.timer = FALSE, !.asked = "amount",
                                !.approveHash = Undefined])

\* The next approve transaction is mined: the token sets the allowance.
MineApprove ==
    /\ stack = <<>>
    /\ modal.minedUpTo < Len(modal.sent)
    /\ allowance' = [allowance EXCEPT ![ModalBuyer] =
                         IF modal.sent[modal.minedUpTo + 1] = "zero" THEN 0 ELSE ModalPrice]
    /\ modal' = [modal EXCEPT !.minedUpTo = @ + 1]
    /\ UNCHANGED <<mneeToken, ledgerVars, balanceOf, stack, last, owner, cart, checkout,
                   feed>>

\* The effect of lines 125-132: approval confirmed while approving.
OnApprovalConfirmed ==
    /\ ApprovalConfirmed(modal)
    /\ modal.step = "approving"
    /\ Len(modal.purchases) < MaxTxs
    /\ ModalStep(HandlePurchase([modal EXCEPT !.step = "approved"]))

\* The purchase is refused (by the wallet or by the node): onError.
PurchaseRejected ==
    /\ modal.step = "purchasing"
    /\ ModalStep([modal EXCEPT !.step = "initial"])

\* ------------------------------------------------------------ CartProvider
\* The products a cart can hold, and the price the product page passes to
\* addItem with each of them.
CartProducts == 1..MaxProducts
CartPrice == 1000

\* item.price.toString() and BigInt(item.price): the decimal text of a price.
PriceToString(n) == [digits |-> n]
BigInt(text) == text.digits

\* serializeCart: the items with their prices as text.
SerializeCart(items) ==
    [i \in DOMAIN items |-> [items[i] EXCEPT !.price = PriceToString(@)]]

\* deserializeCart: the stored items with their prices as numbers again.
DeserializeCart(data) ==
    [i \in DOMAIN data |-> [data[i] EXCEPT !.price = BigInt(@)]]

\* if (!isLoading && address) of the save effect, on the committed render.
SaveAllowed(c) == ~c.isLoading /\ c.address # NoWallet

\* The load effect, lines 89-112: setIsLoading(true), then the stored cart of
\* the address (or [] for none), then setIsLoading(false), all in one batch.
LoadEffect(c) ==
    LET stored == IF c.address = NoWallet THEN <<>> ELSE c.storage[c.address]
        loaded == IF stored # <<>> THEN DeserializeCart(stored[1]) ELSE <<>>
    IN [c EXCEPT !.queued = <<[items |-> loaded, isLoading |-> FALSE]>>]

\* The save effect, lines 115-125, with the values of the committed render.
SaveEffect(c) ==
    IF SaveAllowed(c)
    THEN [c EXCEPT !.storage[c.address] = <<SerializeCart(c.items)>>]
    ELSE c

\* No effect is waiting and no state update is queued.
CartSettled(c) == c.effects = <<>> /\ c.queued = <<>>

\* A step of the cart provider alone.
CartStep(c) ==
    /\ stack = <<>>
    /\ cart' = c
    /\ UNCHANGED <<mneeToken, ledgerVars, tokenVars, stack, last, owner, modal, checkout,
                   feed>>

\* The next effect of the committed render runs.
RunCartEffect ==
    /\ cart.effects # <<>>
    /\ LET ran == IF Head(cart.effects) = "load" THEN LoadEffect(cart)
                                                 ELSE SaveEffect(cart)
       IN CartStep([ran EXCEPT !.effects = Tail(cart.effects)])

\* The state the effects set is rendered; items changed, so the save effect
\* is due again.
CartRenders ==
    /\ cart.effects = <<>>
    /\ cart.queued # <<>>
    /\ CartStep([cart EXCEPT !.items = cart.queued[1].items,
                              !.isLoading = cart.queued[1].isLoading,
                              !.queued = <<>>,
                              !.effects = <<"save">>])

\* useAccount reports another address (connect, switch, disconnect): both
\* effects depend on it.
\* The cart page's reads of allowance and balance are keyed by the address
\* (part_002:50-63) and have no data for the new one yet.
AccountChanged(a) ==
    /\ stack = <<>>
    /\ CartSettled(cart)
    /\ a # cart.address
    /\ cart' = [cart EXCEPT !.address = a, !.effects = <<"load", "save">>]
    /\ checkout' = [checkout EXCEPT !.allowance = Undefined, !.balance = Undefined]
    /\ UNCHANGED <<mneeToken, ledgerVars, tokenVars, stack, last, owner, modal, feed>>

InCart(c, productId) == \E i \in DOMAIN c.items : c.items[i].productId = productId

\* addItem, lines 128-138. addedBy records the wallet connected at the call.
AddItem(productId, price) ==
    /\ CartSettled(cart)
    /\ cart.address # NoWallet
    /\ ~InCart(cart, productId)
    /\ CartStep([cart EXCEPT !.items = Append(@, [productId |-> productId,
                                                   price |-> price,
                                                   addedBy |-> cart.address]),
                              !.effects = <<"save">>])

\* items.filter(i => i.productId !== productId)
WithoutItem(items, productId) ==
    SelectSeq(items, LAMBDA item : item.productId # productId)

\* removeItem, lines 141-143.
RemoveItem(productId) ==
    /\ CartSettled(cart)
    /\ InCart(cart, productId)
    /\ CartStep([cart EXCEPT !.items = WithoutItem(@, productId),
                              !.effects = <<"save">>])

\* clearCart, lines 146-148.
ClearCart ==
    /\ CartSettled(cart)
    /\ cart.items # <<>>
    /\ CartStep([cart EXCEPT !.items = <<>>, !.effects = <<"save">>])

\* ---------------------------------------------------------------- CartPage
\* totalPrice = items.reduce((sum, item) => sum + item.price, 0n)
RECURSIVE TotalPrice(_)
TotalPrice(items) ==
    IF items = <<>> THEN 0 ELSE Head(items).price + TotalPrice(Tail(items))

\* needsApproval = allowance !== undefined && allowance < totalPrice
NeedsCartApproval(k) == k.allowance # Undefined /\ k.allowance < TotalPrice(cart.items)

\* hasInsufficientBalance = balance !== undefined && balance < totalPrice
HasInsufficientBalance(k) == k.balance # Undefined /\ k.balance < TotalPrice(cart.items)

\* isProcessing
IsProcessing(k) == k.checkoutStep \in {"approving", "purchasing"}

\* isApproveSuccess: the receipt of the transaction approveTxHash names.
IsApproveSuccess(k) == k.approveTxHash # Undefined /\ k.approveTxHash <= k.approveMined

\* The successful receipt of a purchase transaction: the ledger logged the
\* sender's purchase of the product.
PurchaseReceipt(tx) ==
    \E i \in DOMAIN events["ProductPurchased"] :
        /\ events["ProductPurchased"][i].buyer = tx.buyer
        /\ events["ProductPurchased"][i].productId = tx.productId

\* Mutant: the purchase counts as done once the wallet has signed it.
IsPurchaseSigned(k) == k.purchaseTxHash # Undefined

\* isPurchaseSuccess: the receipt of the transaction purchaseTxHash names.
IsPurchaseSuccess(k) ==
    k.purchaseTxHash # Undefined /\ PurchaseReceipt(k.purchaseSent[k.purchaseTxHash])

\* The purchase transactions signed and not yet mined.
InFlight(k) == {i \in DOMAIN k.purchaseSent : ~PurchaseReceipt(k.purchaseSent[i])}

\* What purchaseProduct(pid) answers to sender on the present ledger: the
\* estimate the wallet makes before it sends the transaction.
PurchaseOutcome(sender, pid) ==
    LET product == products[pid] IN
    IF ~ProductExists(product) THEN "ProductNotFound"
    ELSE IF ~product.active THEN "ProductInactive"
    ELSE IF IsOwnProduct(product, sender) THEN "SelfPurchase"
    ELSE IF AlreadyPurchased(sender, pid) THEN "AlreadyOwned"
    ELSE IF balanceOf[sender] < product.price \/ allowance[sender] < product.price
         THEN "PaymentFailed"
    ELSE "ok"

\* purchaseNextItem(index), lines 138-157, with the items and the account of
\* the committed render; index counts from 0.
PurchaseNextItem(k, index) ==
    IF index >= Len(cart.items) THEN k
    ELSE LET pid == cart.items[index + 1].productId
             tx == [buyer |-> cart.address, productId |-> pid]
         IN [k EXCEPT !.purchaseAsked = <<tx>>,
                      !.purchaseTxHash = Undefined,
                      !.submitted = Append(@,
                          [run |-> k.runs, index |-> index, productId |-> pid,
                           buyer |-> cart.address,
                           owned |-> hasPurchased[cart.address][pid],
                           inFlight |-> Cardinality(InFlight(k)),
                           afterReceipt |->
                               \/ index = 0
                               \/ \E j \in DOMAIN k.submitted :
                                      /\ k.submitted[j].run = k.runs
                                      /\ k.submitted[j].index = index - 1
                                      /\ PurchaseReceipt(k.submitted[j])])]

\* A step of the cart page alone.
CheckoutStep(k) ==
    /\ stack = <<>>
    /\ CartSettled(cart)
    /\ checkout' = k
    /\ UNCHANGED <<mneeToken, ledgerVars, tokenVars, stack, last, owner, modal, cart, feed>>

\* The reads of allowance and balance answer (first fetch or refetch).
ReadsAnswered ==
    /\ cart.address # NoWallet
    /\ <<checkout.allowance, checkout.balance>> #
           <<allowance[cart.address], balanceOf[cart.address]>>
    /\ CheckoutStep([checkout EXCEPT !.allowance = allowance[cart.address],
                                     !.balance = balanceOf[cart.address]])

\* handleCheckout, lines 160-223 (the button: lines 364-395).
HandleCheckout ==
    LET total == TotalPrice(cart.items)
        started == [checkout EXCEPT !.purchasedItems = <<>>, !.runs = @ + 1]
        resetFirst == checkout.allowance > 0 /\ checkout.allowance < total
    IN
    /\ checkout.checkoutStep = "idle"
    /\ checkout.runs < MaxRuns
    /\ cart.address # NoWallet
    /\ cart.items # <<>>
    /\ ~HasInsufficientBalance(checkout)
    /\ CheckoutStep(
         IF NeedsCartApproval(checkout)
         THEN [started EXCEPT
                  !.checkoutStep = "approving",
                  !.approveTxHash = Undefined,
                  !.approveAsked = <<[owner |-> cart.address,
                                      amount |-> IF resetFirst THEN 0 ELSE total,
                                      thenAmount |-> IF resetFirst THEN total
                                                                   ELSE Undefined]>>]
         ELSE PurchaseNextItem([started EXCEPT !.checkoutStep = "purchasing",
                                               !.currentItemIndex = 0], 0))

\* The wallet signs the approve it was asked for: writeApprove has its hash.
\* The onSuccess of approve(0) (lines 187-199) asks for the second approve at
\* once, which makes the hash undefined again.
ApproveSigned ==
    /\ checkout.approveAsked # <<>>
    /\ LET req == checkout.approveAsked[1]
           sent == Append(checkout.approveSent,
                          [owner |-> req.owner, amount |-> req.amount, run |-> checkout.runs])
       IN CheckoutStep(
            IF req.thenAmount # Undefined
            THEN [checkout EXCEPT !.approveSent = sent,
                                  !.approveTxHash = Undefined,
                                  !.approveAsked = <<[owner |-> req.owner,
                                                      amount |-> req.thenAmount,
                                                      thenAmount |-> Undefined]>>]
            ELSE [checkout EXCEPT !.approveSent = sent,
                                  !.approveTxHash = Len(sent),
                                  !.approveAsked = <<>>])

\* The wallet refuses the approve: onError, lines 194-203 and 212-215.
ApproveRejected ==
    /\ checkout.approveAsked # <<>>
    /\ CheckoutStep([checkout EXCEPT !.approveAsked = <<>>, !.checkoutStep = "error"])

\* The next signed approve is mined: the token sets the allowance.
MineCartApprove ==
    /\ stack = <<>>
    /\ checkout.approveMined < Len(checkout.approveSent)
    /\ LET tx == checkout.approveSent[checkout.approveMined + 1]
       IN allowance' = [allowance EXCEPT ![tx.owner] = tx.amount]
    /\ checkout' = [checkout EXCEPT !.approveMined = @ + 1]
    /\ UNCHANGED <<mneeToken, ledgerVars, balanceOf, stack, last, owner, modal, cart, feed>>

\* The effect of lines 96-109.
OnApproveSuccess ==
    /\ IsApproveSuccess(checkout)
    /\ checkout.checkoutStep = "approving"
    /\ CheckoutStep(PurchaseNextItem([checkout EXCEPT !.checkoutStep = "purchasing",
                                                      !.currentItemIndex = 0], 0))

\* The wallet signs the purchase it was asked for, which its estimate accepts.
PurchaseSigned ==
    /\ checkout.purchaseAsked # <<>>
    /\ LET tx == checkout.purchaseAsked[1] IN
       /\ PurchaseOutcome(tx.buyer, tx.productId) = "ok"
       /\ CheckoutStep([checkout EXCEPT !.purchaseSent = Append(@, tx),
                                        !.purchaseTxHash = Len(checkout.purchaseSent) + 1,
                                        !.purchaseAsked = <<>>])

\* The purchase is refused, by the user or because the estimate reverts:
\* onError, lines 147-155.
PurchaseFailed ==
    /\ checkout.purchaseAsked # <<>>
    /\ CheckoutStep([checkout EXCEPT !.purchaseAsked = <<>>, !.checkoutStep = "error"])

\* A signed purchase is mined: the ledger runs purchaseProduct for its sender.
MinePurchase ==
    \E i \in InFlight(checkout) :
        PurchaseProduct(checkout.purchaseSent[i].buyer, checkout.purchaseSent[i].productId)

\* The effect of lines 112-135, with the items of the committed render.
OnPurchaseSuccess ==
    LET index == checkout.currentItemIndex
        noted == IF index < Len(cart.items)
                 THEN [checkout EXCEPT !.purchasedItems =
                                           Append(@, cart.items[index + 1].productId)]
                 ELSE checkout
    IN
    /\ stack = <<>>
    /\ CartSettled(cart)
    /\ IsPurchaseSuccess(checkout)
    /\ checkout.checkoutStep = "purchasing"
    /\ IF index + 1 < Len(cart.items)
       THEN /\ checkout' = PurchaseNextItem([noted EXCEPT !.currentItemIndex = index + 1,
                                                          !.purchaseTxHash = Undefined],
                                            index + 1)
            /\ cart' = cart
       ELSE /\ checkout' = [noted EXCEPT !.checkoutStep = "success"]
            /\ cart' = [cart EXCEPT !.items = <<>>, !.effects = <<"save">>]
    /\ UNCHANGED <<mneeToken, ledgerVars, tokenVars, stack, last, owner, modal, feed>>

\* resetCheckout ("Try Again"), lines 226-233; the button: lines 372-379.
ResetCheckout ==
    /\ checkout.checkoutStep = "error"
    /\ cart.address # NoWallet
    /\ ~HasInsufficientBalance(checkout)
    /\ CheckoutStep([checkout EXCEPT !.checkoutStep = "idle",
                                     !.currentItemIndex = 0,
                                     !.purchasedItems = <<>>,
                                     !.approveTxHash = Undefined,
                                     !.purchaseTxHash = Undefined])

\* The remove button of a cart row: disabled={isProcessing || isPurchased}.
RemoveFromCartPage(productId) ==
    /\ ~IsProcessing(checkout)
    /\ checkout.checkoutStep # "success"
    /\ \A i \in DOMAIN checkout.purchasedItems : checkout.purchasedItems[i] # productId
    /\ RemoveItem(productId)

\* "Add to cart" on the page of a listed product, before the cart page opens.
AddListedItem(productId) ==
    /\ products[productId].id # 0
    /\ checkout.runs = 0
    /\ AddItem(productId, products[productId].price)

\* The buyer granted the ledger an allowance before shopping.
EarlierAllowance(sender, amount) ==
    /\ checkout.runs = 0
    /\ allowance[sender] = 0
    /\ Approve(sender, amount)

\* ------------------------------------------------------------ usePurchases
\* useAccount().address of the hook: one wallet, connected throughout.
FeedWallet == "bob"
\* blocksToQuery (500_000 on Sepolia, 100_000 otherwise), scaled to the model.
BlocksToQuery == 1

\* blockNumber.toString() and BigInt(lastSeenBlock).
BlockToString(n) == [digits |-> n]

\* hasUserPurchased(_user, _productId): the ledger's purchase fact.
HasUserPurchased(user, productId) == hasPurchased[user][productId]

\* The purchase record of lines 132-140 for the i-th ProductPurchased log
\* entry; every purchase is a transaction of its own, so i names its hash.
LogRecord(i) ==
    [productId |-> events["ProductPurchased"][i].productId,
     blockNumber |-> feed.blockOf[i], txHash |-> i, log |-> i]

\* getContractEvents(ProductPurchased, buyer, fromBlock, 'latest'), in log order.
EventQuery(buyer, fromBlock) ==
    LET all == [i \in 1..Len(events["ProductPurchased"]) |-> i]
        hits == SelectSeq(all, LAMBDA i : /\ events["ProductPurchased"][i].buyer = buyer
                                          /\ feed.blockOf[i] >= fromBlock)
    IN [k \in DOMAIN hits |-> LogRecord(hits[k])]

\* purchaseRecords.sort((a, b) => Number(b.blockNumber - a.blockNumber)):
\* newest block first, records of one block in their given order.
RECURSIVE SortNewestFirst(_)
SortNewestFirst(records) ==
    IF records = <<>> THEN <<>>
    ELSE LET sorted == SortNewestFirst(SubSeq(records, 1, Len(records) - 1))
             r == records[Len(records)]
             k == Cardinality({i \in DOMAIN sorted : sorted[i].blockNumber >= r.blockNumber})
         IN SubSeq(sorted, 1, k) \o <<r>> \o SubSeq(sorted, k + 1, Len(sorted))

\* checkPurchasesViaContract, lines 178-220: a minimal record (block 0, no
\* hash) per product the ledger says the user holds. log: the entry of that
\* purchase on the ledger's log.
CheckPurchasesViaContract(user, totalProducts) ==
    LET all == [j \in 1..totalProducts |-> j]
        held == SelectSeq(all, LAMBDA j : HasUserPurchased(user, j))
    IN [k \in DOMAIN held |->
           [productId |-> held[k], blockNumber |-> 0, txHash |-> 0,
            log |-> CHOOSE i \in DOMAIN events["ProductPurchased"] :
                       /\ events["ProductPurchased"][i].buyer = user
                       /\ events["ProductPurchased"][i].productId = held[k]]]

\* records.find(r => r.blockNumber > 0n), as <<>> or <<record>>.
RecordWithBlock(records) ==
    LET withBlock == SelectSeq(records, LAMBDA r : r.blockNumber > 0)
    IN IF withBlock = <<>> THEN <<>> ELSE <<withBlock[1]>>

RECURSIVE LatestLog(_)
LatestLog(records) ==
    IF records = <<>> THEN 0
    ELSE LET rest == LatestLog(Tail(records))
         IN IF Head(records).log > rest THEN Head(records).log ELSE rest

\* markAllAsSeenInternal, lines 258-271 (and the body of markAllAsSeen).
MarkAllAsSeenInternal(f, records) ==
    LET found == RecordWithBlock(records)
        stored == IF found = <<>> THEN f.lastSeen
                  ELSE <<[block |-> BlockToString(found[1].blockNumber),
                          tx |-> found[1].txHash]>>
        latest == LatestLog(records)
    IN [f EXCEPT !.lastSeen = stored, !.marked = TRUE,
                 !.seenLog = IF latest > @ THEN latest ELSE @]

\* The filter of lines 244-249.
IsNewPurchase(p, lastSeenBlockNum, lastSeenTx) ==
    IF p.blockNumber = 0 THEN FALSE
    ELSE IF p.blockNumber > lastSeenBlockNum THEN TRUE
    ELSE p.blockNumber = lastSeenBlockNum /\ p.txHash # lastSeenTx

\* checkNewPurchases, lines 223-255.
CheckNewPurchases(f, records) ==
    IF records = <<>> THEN [f EXCEPT !.hasNewPurchases = FALSE]
    ELSE IF f.lastSeen = <<>>
         THEN [MarkAllAsSeenInternal(f, records) EXCEPT !.hasNewPurchases = FALSE]
    ELSE LET lastSeenBlockNum == BigInt(f.lastSeen[1].block)
             lastSeenTx == f.lastSeen[1].tx
         IN [f EXCEPT !.hasNewPurchases =
                \E i \in DOMAIN records :
                    IsNewPurchase(records[i], lastSeenBlockNum, lastSeenTx)]

\* purchasedProductIds = [...new Set(purchases.map(p => p.productId))]
RECURSIVE Unique(_)
Unique(ids) ==
    IF ids = <<>> THEN <<>>
    ELSE LET init == Unique(SubSeq(ids, 1, Len(ids) - 1))
             id == ids[Len(ids)]
         IN IF \E i \in DOMAIN init : init[i] = id THEN init ELSE Append(init, id)

PurchasedProductIds(f) == Unique([i \in DOMAIN f.purchases |-> f.purchases[i].productId])

\* A step of the hook alone.
FeedStep(f) ==
    /\ stack = <<>>
    /\ feed' = f
    /\ UNCHANGED <<mneeToken, ledgerVars, tokenVars, stack, last, owner, modal, cart,
                   checkout>>

\* Every purchase on the log is in a block.
AllInBlocks == Len(feed.blockOf) = Len(events["ProductPurchased"])

\* The purchase just made is mined: into the latest block if that is still
\* open, else into a new one.
PlaceInBlock(sameBlock) ==
    /\ ~AllInBlocks
    /\ IF sameBlock
       THEN /\ feed.open
            /\ FeedStep([feed EXCEPT !.blockOf = Append(@, feed.head)])
       ELSE /\ feed.head < MaxBlocks
            /\ FeedStep([feed EXCEPT !.blockOf = Append(@, feed.head + 1),
                                     !.head = @ + 1, !.open = TRUE])

\* A block without purchases is mined.
BlocksPass ==
    /\ AllInBlocks
    /\ feed.head < MaxBlocks
    /\ FeedStep([feed EXCEPT !.head = @ + 1, !.open = FALSE])

\* The read of productCounter answers (lines 62-65).
ProductCounterRead ==
    /\ feed.productCounter # productCounter
    /\ FeedStep([feed EXCEPT !.productCounter = productCounter])

\* fetchPurchases, lines 68-175, for each way the node may answer the event
\* queries: "window" (the first query answers), "earliest" (it throws and
\* the one from 'earliest' answers), "none" (both throw).
FetchPurchases(rpc) ==
    LET fromBlock == IF feed.head > BlocksToQuery THEN feed.head - BlocksToQuery ELSE 0
        logs == IF rpc = "window" THEN EventQuery(FeedWallet, fromBlock)
                ELSE IF rpc = "earliest" THEN EventQuery(FeedWallet, 0)
                ELSE <<>>
        done == [feed EXCEPT !.fetches = @ + 1, !.open = FALSE,
                             !.strategy = IF logs # <<>> THEN rpc ELSE "contract",
                             !.owned = {p \in 1..productCounter :
                                           hasPurchased[FeedWallet][p]}]
        purchaseRecords == SortNewestFirst(logs)
    IN
    /\ AllInBlocks
    /\ feed.fetches < MaxFetches
    /\ FeedStep(
         IF logs # <<>>
         THEN CheckNewPurchases([done EXCEPT !.purchases = purchaseRecords], purchaseRecords)
         ELSE IF feed.productCounter # Undefined /\ feed.productCounter > 0
              THEN [done EXCEPT !.purchases =
                       CheckPurchasesViaContract(FeedWallet, feed.productCounter)]
              ELSE [done EXCEPT !.purchases = <<>>])

\* clearNewPurchaseNotification -> markAllAsSeen(), lines 274-296.
ClearNewPurchaseNotification ==
    /\ feed.purchases # <<>>
    /\ FeedStep([MarkAllAsSeenInternal(feed, feed.purchases) EXCEPT
                    !.hasNewPurchases = FALSE])

\* The wallet buys, once the purchase before is in a block.
FeedPurchase(productId) ==
    /\ AllInBlocks
    /\ PurchaseProduct(FeedWallet, productId)

\* -------------------------------------------------------------------- spec
\* The marketplace on a plain token: listing, purchase, both withdrawals and
\* activation, each call a transaction of its own.
Next ==
    \/ \E s \in Listers, c \in Cids, p \in Prices, n \in Names : ListProduct(s, c, p, n)
    \/ \E s \in Accounts, i \in ProductIds : PurchaseProduct(s, i)
    \/ \E ret \in BOOLEAN : TransferFromReturns(ret)
    \/ \E s \in Accounts : WithdrawSellerBalance(s)
    \/ \E s \in Accounts : WithdrawPlatformFees(s)
    \/ \E ret \in BOOLEAN : TransferReturns(ret)
    \/ TokenReverts
    \/ \E s \in Payers, a \in ApproveAmounts : Approve(s, a)
    \/ \E s \in Accounts, i \in ProductIds, b \in BOOLEAN : SetActive(s, i, b)

Spec == Init /\ [][Next]_vars

\* The same with the price and fee-rate setters, on narrower inputs: one
\* lister with a well-formed name, one paying account.
Traders == {"alice", "bob"}
NextAdmin ==
    \/ \E c \in Cids, p \in Prices : ListProduct("alice", c, p, "ebook")
    \/ \E s \in Traders, i \in ProductIds : PurchaseProduct(s, i)
    \/ \E ret \in BOOLEAN : TransferFromReturns(ret)
    \/ \E s \in Accounts : WithdrawSellerBalance(s)
    \/ \E s \in Accounts : WithdrawPlatformFees(s)
    \/ \E ret \in BOOLEAN : TransferReturns(ret)
    \/ TokenReverts
    \/ \E a \in ApproveAmounts : Approve("bob", a)
    \/ \E s \in Traders, i \in 1..MaxProducts, b \in BOOLEAN : SetActive(s, i, b)
    \/ \E s \in Traders, i \in 1..MaxProducts, p \in NewPrices : SetPrice(s, i, p)
    \/ \E s \in Accounts, r \in RateArgs : SetFeeRate(s, r)

SpecAdmin == Init /\ [][NextAdmin]_vars

\* Purchases over a range of prices and fee rates: one seller lists at any
\* of the prices, one buyer approves and buys, under each constructor rate.
FeePrices == {1, 7, 15, 999, 1000}
FeeRateSamples == {0, 1, 333, 1000, 1999, 2000, 2500}

InitFee == Constructed("plain", FeeRateSamples, InitialBalance)

NextFee ==
    \/ \E p \in FeePrices : ListProduct("alice", "Qm", p, "ebook")
    \/ \E a \in ApproveAmounts : Approve("bob", a)
    \/ \E i \in ProductIds : PurchaseProduct("bob", i)
    \/ \E ret \in BOOLEAN : TransferFromReturns(ret)
    \/ TokenReverts

SpecFee == InitFee /\ [][NextFee]_vars

\* The marketplace on a token with hooks: while a transferFrom or transfer
\* is in progress, the token may call any of these functions again.  The
\* buyer holds and approves enough for two payments.
HooksBalance == [h \in Holders |-> IF h = Mart THEN 0 ELSE 2500]
HooksApprove == {2000}
HooksPrices == {1000}

InitReentrant == Constructed("hooks", FeeRates, HooksBalance)

NextReentrant ==
    \/ \E p \in HooksPrices : ListProduct("alice", "Qm", p, "ebook")
    \/ \E i \in 1..MaxProducts : PurchaseProduct("bob", i)
    \/ \E ret \in BOOLEAN : TransferFromReturns(ret)
    \/ WithdrawSellerBalance("alice")
    \/ WithdrawPlatformFees(owner)
    \/ \E ret \in BOOLEAN : TransferReturns(ret)
    \/ TokenReverts
    \/ \E a \in HooksApprove : Approve("bob", a)

SpecReentrant == InitReentrant /\ [][NextReentrant]_vars

\* The owner role: one seller, one buyer, the fee withdrawal, the fee-rate
\* setter and the hand-over of the role, under each constructor rate offered.
OwnerRates == {1000, 2500}

InitOwner == Constructed("plain", OwnerRates, InitialBalance)

NextOwner ==
    \/ \E p \in Prices : ListProduct("alice", "Qm", p, "ebook")
    \/ \E a \in ApproveAmounts : Approve("bob", a)
    \/ \E i \in 1..MaxProducts : PurchaseProduct("bob", i)
    \/ \E ret \in BOOLEAN : TransferFromReturns(ret)
    \/ \E s \in Accounts : WithdrawPlatformFees(s)
    \/ \E ret \in BOOLEAN : TransferReturns(ret)
    \/ TokenReverts
    \/ \E s, n \in Accounts : TransferOwnership(s, n)
    \/ \E s \in Accounts, r \in RateArgs : SetFeeRate(s, r)

SpecOwner == InitOwner /\ [][NextOwner]_vars

\* The catalog: two sellers list with every combination of arguments,
\* activate, deactivate and reprice their own and each other's products,
\* and one buyer buys.
NextCatalog ==
    \/ \E s \in Listers, c \in Cids, p \in Prices, n \in Names : ListProduct(s, c, p, n)
    \/ \E s \in Listers, i \in ProductIds, b \in BOOLEAN : SetActive(s, i, b)
    \/ \E s \in Listers, i \in ProductIds, p \in NewPrices : SetPrice(s, i, p)
    \/ \E a \in ApproveAmounts : Approve("owner", a)
    \/ \E i \in 1..MaxProducts : PurchaseProduct("owner", i)
    \/ \E ret \in BOOLEAN : TransferFromReturns(ret)
    \/ TokenReverts

SpecCatalog == Init /\ [][NextCatalog]_vars

\* Buyers racing for the same products: one seller, every account a buyer,
\* each purchase a transaction of its own, in any order.
NextRace ==
    \/ \E p \in Prices : ListProduct("alice", "Qm", p, "ebook")
    \/ \E s \in Payers, a \in ApproveAmounts : Approve(s, a)
    \/ \E s \in Accounts, i \in ProductIds : PurchaseProduct(s, i)
    \/ \E ret \in BOOLEAN : TransferFromReturns(ret)
    \/ TokenReverts
    \/ WithdrawSellerBalance("alice")
    \/ \E ret \in BOOLEAN : TransferReturns(ret)

SpecRace == Init /\ [][NextRace]_vars

\* The purchase dialog of one buyer against the token.
NextModal ==
    \/ \E a \in ModalAllowances : ExistingAllowance(a)
    \/ OpenModal
    \/ CloseModal
    \/ AllowanceFetched
    \/ HandleStartPurchase
    \/ WalletSigns
    \/ WalletRejects
    \/ TimerFires
    \/ MineApprove
    \/ OnApprovalConfirmed
    \/ PurchaseRejected

SpecModal == Init /\ [][NextModal]_vars

\* Batch checkout: one seller lists the products, one wallet fills its cart
\* and checks out on the cart page; every transaction the page sends is mined
\* as a transaction of its own.
CheckoutBalance == [h \in Holders |-> IF h = Mart THEN 0 ELSE 2500]
EarlierAllowances == {400}
\* The wallet that shops when only one is used.
CheckoutWallet == "bob"

InitCheckout == Constructed("plain", FeeRates, CheckoutBalance)

NextCheckout ==
    \/ ListProduct("owner", "Qm", 1000, "ebook")
    \/ \E a \in EarlierAllowances : EarlierAllowance(CheckoutWallet, a)
    \/ RunCartEffect
    \/ CartRenders
    \/ AccountChanged(CheckoutWallet)
    \/ \E p \in CartProducts : AddListedItem(p)
    \/ \E p \in CartProducts : RemoveFromCartPage(p)
    \/ ReadsAnswered
    \/ HandleCheckout
    \/ ApproveSigned
    \/ ApproveRejected
    \/ MineCartApprove
    \/ OnApproveSuccess
    \/ PurchaseSigned
    \/ PurchaseFailed
    \/ MinePurchase
    \/ TransferFromReturns(TRUE)
    \/ OnPurchaseSuccess
    \/ ResetCheckout

SpecCheckout == InitCheckout /\ [][NextCheckout]_vars

\* Batch checkout while the user of the browser changes between two wallets
\* with a cart each; the token allowance is granted by the page's approve.
NextCheckoutSwitch ==
    \/ ListProduct("owner", "Qm", 1000, "ebook")
    \/ RunCartEffect
    \/ CartRenders
    \/ \E a \in CartWallets : AccountChanged(a)
    \/ \E p \in CartProducts : AddListedItem(p)
    \/ ReadsAnswered
    \/ HandleCheckout
    \/ ApproveSigned
    \/ ApproveRejected
    \/ MineCartApprove
    \/ OnApproveSuccess
    \/ PurchaseSigned
    \/ PurchaseFailed
    \/ MinePurchase
    \/ TransferFromReturns(TRUE)
    \/ OnPurchaseSuccess
    \/ ResetCheckout

SpecCheckoutSwitch == InitCheckout /\ [][NextCheckoutSwitch]_vars

\* The purchase history of one wallet that buys up to two products, read
\* through a node that may or may not answer the event queries.
FeedApprove == {2000}
RpcAnswers == {"window", "earliest", "none"}

NextFeed ==
    \/ ListProduct("owner", "Qm", 1000, "ebook")
    \/ \E a \in FeedApprove : EarlierAllowance(FeedWallet, a)
    \/ \E p \in CartProducts : FeedPurchase(p)
    \/ TransferFromReturns(TRUE)
    \/ \E same \in BOOLEAN : PlaceInBlock(same)
    \/ BlocksPass
    \/ ProductCounterRead
    \/ \E rpc \in RpcAnswers : FetchPurchases(rpc)
    \/ ClearNewPurchaseNotification

SpecFeed == InitCheckout /\ [][NextFeed]_vars

\* The cart of one browser used with two wallets.
NextCart ==
    \/ RunCartEffect
    \/ CartRenders
    \/ \E a \in CartWallets \cup {NoWallet} : AccountChanged(a)
    \/ \E p \in CartProducts : AddItem(p, CartPrice)
    \/ \E p \in CartProducts : RemoveItem(p)
    \/ ClearCart

SpecCart == Init /\ [][NextCart]_vars

\* ------------------------------------------------------------------ claims
PurchasedLog == events["ProductPurchased"]
SellerWithdrawalLog == events["SellerWithdrawal"]

\* The step in which a call of fn returns successfully to its caller.
Returns(fn) ==
    /\ stack # <<>>
    /\ Top.fn = fn
    /\ stack' = Pop
    /\ last' = [fn |-> fn, status |-> "ok"]

\* The call did nothing but report its error.
FailsWith(fn, status) ==
    /\ last' = [fn |-> fn, status |-> status]
    /\ World' = World
    /\ stack' = stack

\* C1: in every successful purchase the amount credited to the seller's
\* withdrawable balance plus the fee credited to the treasury equals the
\* price pulled from the buyer into custody.
C1_SplitConservesPrice ==
    [][Returns("purchaseProduct") =>
        LET f == Top
            seller == products[f.pid].seller
            price == products[f.pid].price
            pulled == balanceOf[f.sender] - balanceOf'[f.sender]
            credited == sellers'[seller].balance - sellers[seller].balance
            fee == platformBalance' - platformBalance
        IN /\ price > 0
           /\ platformFeePercentage \in 0..MaxFeeBps
           /\ pulled = price
           /\ balanceOf'[Mart] - balanceOf[Mart] = price
           /\ credited + fee = price
           /\ credited >= 0 /\ fee >= 0]_vars

\* A purchase at price 999 settled with a fee of 199 (rate 1999 or 2000).
C1_Witness ==
    /\ last = [fn |-> "purchaseProduct", status |-> "ok"]
    /\ \E i \in DOMAIN PurchasedLog :
          PurchasedLog[i].price = 999 /\ PurchasedLog[i].platformFee = 199

\* C2: when the pull-transfer fails (the token returns false or reverts, as
\* it must when balance or allowance is short), the purchase fails with
\* PaymentFailed and ledger, log and token are as before the call.
C2_FailedPaymentChangesNothing ==
    [][(stack # <<>> /\ Top.fn = "purchaseProduct") =>
        LET f == Top
            short == balanceOf[f.sender] < f.amount \/ allowance[f.sender] < f.amount
        IN /\ (TransferFromReturns(FALSE) \/ TokenReverts \/ (short /\ stack' # stack)) =>
                /\ last' = [fn |-> "purchaseProduct", status |-> "PaymentFailed"]
                /\ World' = f.saved
                /\ World' = World
                /\ stack' = Pop]_vars

\* A purchase failed for want of allowance after another one had settled.
C2_Witness ==
    /\ last = [fn |-> "purchaseProduct", status |-> "PaymentFailed"]
    /\ stack = <<>>
    /\ PurchasedLog # <<>>
    /\ \E a \in Accounts : allowance[a] < 1000 /\ balanceOf[a] >= 1000

\* C8: the fee charged is floor(price * rate / 10000), is non-decreasing in
\* the rate for the price charged, and is at most a fifth of the price.
C8_FeeIsFloorOfShare ==
    [][Returns("purchaseProduct") =>
        LET price == products[Top.pid].price
            rate == platformFeePercentage
            fee == platformBalance' - platformBalance
        IN /\ fee * BasisPoints <= price * rate
           /\ price * rate < (fee + 1) * BasisPoints
           /\ 5 * fee <= price
           /\ rate <= MaxFeeBps
           /\ \A r \in {x \in FeeRateSamples : x <= MaxFeeBps} :
                 /\ r <= rate => PlatformFee(price, r) <= fee
                 /\ r >= rate => PlatformFee(price, r) >= fee
                 /\ 5 * PlatformFee(price, r) <= price]_vars

\* A purchase whose fee was rounded down: price 7 at 1999 or 2000 basis points.
C8_Witness ==
    /\ last = [fn |-> "purchaseProduct", status |-> "ok"]
    /\ \E i \in DOMAIN PurchasedLog :
          PurchasedLog[i].price = 7 /\ PurchasedLog[i].platformFee = 1

\* The purchase records of one (buyer, product) pair.
RecordsOf(buyer, pid) ==
    {i \in DOMAIN PurchasedLog :
        PurchasedLog[i].buyer = buyer /\ PurchasedLog[i].productId = pid}

\* C3 as stated: once (buyer, productId) is purchased, every later purchase
\* attempt for the pair fails with AlreadyOwned and changes nothing.
C3_AsStated ==
    [][\A b \in Accounts, p \in ProductIds :
          (stack = <<>> /\ hasPurchased[b][p] /\ PurchaseProduct(b, p)) =>
              FailsWith("purchaseProduct", "AlreadyOwned")]_vars

\* C3 amended: once (buyer, productId) is purchased, every later purchase
\* attempt for the pair fails and changes nothing, with AlreadyOwned while
\* the product is active and with ProductInactive once it is deactivated;
\* the pair is settled once (one record, one history entry).
C3_RepeatPurchaseDenied ==
    [][\A b \in Accounts, p \in ProductIds :
          /\ (stack = <<>> /\ hasPurchased[b][p] /\ PurchaseProduct(b, p)) =>
                FailsWith("purchaseProduct",
                          IF products[p].active THEN "AlreadyOwned" ELSE "ProductInactive")
          /\ hasPurchased[b][p] =>
                /\ Cardinality(RecordsOf(b, p)) = 1
                /\ Cardinality({i \in DOMAIN productPurchasers[p] :
                                   productPurchasers[p][i] = b}) = 1]_vars

\* A repeated purchase was denied with AlreadyOwned.
C3_Witness ==
    /\ last = [fn |-> "purchaseProduct", status |-> "AlreadyOwned"]
    /\ \E b \in Accounts, p \in ProductIds : hasPurchased[b][p]

\* C4: hasPurchased(account, productId) holds only for pairs with a settled
\* purchase (never for product 0 or an unused id), becomes true in the step
\* that settles the purchase, and no step of any operation resets it.
C4_PurchaseFactPermanent ==
    [][LET Owned(facts) == {x \in Accounts \X ProductIds : facts[x[1]][x[2]]}
           logged == {<<PurchasedLog[i].buyer, PurchasedLog[i].productId>> :
                         i \in DOMAIN PurchasedLog}
       IN /\ Owned(hasPurchased) \subseteq Owned(hasPurchased')
          /\ Owned(hasPurchased) = logged
          /\ \A x \in Owned(hasPurchased) : x[2] \in 1..productCounter
          /\ hasPurchased' # hasPurchased =>
                /\ Returns("purchaseProduct")
                /\ Owned(hasPurchased') = Owned(hasPurchased) \cup {<<Top.sender, Top.pid>>}
          /\ Returns("purchaseProduct") => hasPurchased'[Top.sender][Top.pid]]_vars

\* A purchase fact that outlived deactivation, a price change, a fee-rate
\* change, both withdrawals and a later listing.
C4_Witness ==
    /\ hasPurchased["bob"][1]
    /\ ~products[1].active
    /\ products[1].price = 7
    /\ platformFeePercentage = 2000
    /\ SellerWithdrawalLog # <<>>
    /\ events["PlatformWithdrawal"] # <<>>
    /\ productCounter = 2

\* C6: when the outbound transfer of a seller withdrawal fails, the call
\* fails, the seller's withdrawable balance is what it was before the call,
\* and nothing else (log, other ledger state, token) has changed.
C6_FailedWithdrawalRestoresBalance ==
    [][(stack # <<>> /\ Top.fn = "withdrawSellerBalance"
          /\ (TransferReturns(FALSE) \/ TokenReverts)) =>
        LET f == Top IN
        /\ last' = [fn |-> "withdrawSellerBalance", status |-> "WithdrawalFailed"]
        /\ stack' = Pop
        /\ f.amount > 0
        /\ sellers'[f.sender].balance = f.amount
        /\ sellers' = [sellers EXCEPT ![f.sender].balance = f.amount]
        /\ events' = events
        /\ World' = f.saved
        /\ UNCHANGED <<platformFeePercentage, productCounter, platformBalance, products,
                       hasPurchased, productPurchasers, balanceOf, allowance>>]_vars

\* A seller withdrawal failed and the seller still holds the claim.
C6_Witness ==
    /\ last = [fn |-> "withdrawSellerBalance", status |-> "WithdrawalFailed"]
    /\ stack = <<>>
    /\ \E s \in Accounts : sellers[s].balance > 0 /\ balanceOf[Mart] >= sellers[s].balance

\* C7: a successful withdraw of a balance b > 0 moves exactly b tokens from
\* custody to the seller, zeroes the balance and leaves totalEarnings and the
\* other sellers alone; a withdraw of a zero balance fails with
\* NothingToWithdraw and moves nothing.
C7_WithdrawPaysBalanceOnce ==
    [][/\ Returns("withdrawSellerBalance") =>
            LET s == Top.sender
                before == Top.saved
                b == before.sellers[s].balance
            IN /\ b > 0
               /\ balanceOf'[s] = before.balanceOf[s] + b
               /\ balanceOf'[Mart] = before.balanceOf[Mart] - b
               /\ \A h \in Holders \ {s, Mart} : balanceOf'[h] = before.balanceOf[h]
               /\ sellers'[s] = [before.sellers[s] EXCEPT !.balance = 0]
               /\ \A t \in Accounts \ {s} : sellers'[t] = before.sellers[t]
       /\ \A s \in Accounts :
            (sellers[s].balance = 0 /\ WithdrawSellerBalance(s)) =>
                FailsWith("withdrawSellerBalance", "NothingToWithdraw")]_vars

\* A seller withdrew, withdrew again in vain, while another seller's
\* earnings stayed on the books.
C7_Witness ==
    /\ last = [fn |-> "withdrawSellerBalance", status |-> "NothingToWithdraw"]
    /\ \E s, t \in Accounts :
          /\ s # t
          /\ \E i \in DOMAIN SellerWithdrawalLog : SellerWithdrawalLog[i].seller = s
          /\ sellers[s].balance = 0
          /\ sellers[s].totalEarnings > 0
          /\ sellers[t].balance > 0

\* C9: a purchase of an id that was never listed (0 included) fails with
\* ProductNotFound, one of a listed but inactive product with
\* ProductInactive, whoever the buyer; neither changes any balance.
C9_UnknownOrInactiveRejected ==
    [][\A b \in Accounts, p \in ProductIds :
          PurchaseProduct(b, p) =>
            /\ p \notin 1..productCounter =>
                  FailsWith("purchaseProduct", "ProductNotFound")
            /\ (p \in 1..productCounter /\ ~products[p].active) =>
                  FailsWith("purchaseProduct", "ProductInactive")
            /\ (p \notin 1..productCounter \/ ~products[p].active) =>
                  /\ \A s \in Accounts : sellers'[s].balance = sellers[s].balance
                  /\ platformBalance' = platformBalance
                  /\ balanceOf' = balanceOf]_vars

\* A purchase of a deactivated product was refused while funds were on the books.
C9_Witness ==
    /\ last = [fn |-> "purchaseProduct", status |-> "ProductInactive"]
    /\ platformBalance > 0
    /\ \E p \in 1..productCounter : ~products[p].active /\ products[p].salesCount > 0

\* C10: a purchase attempted by the product's own seller fails and changes
\* nothing, whether the product is active or not; no account holds a
\* purchase fact for a product it sells.
C10_SelfPurchaseRejected ==
    [][/\ \A s \in Accounts, p \in 1..productCounter :
            (products[p].seller = s /\ PurchaseProduct(s, p)) =>
                FailsWith("purchaseProduct",
                          IF products[p].active THEN "SelfPurchase" ELSE "ProductInactive")
       /\ \A a \in Accounts, p \in ProductIds :
            hasPurchased[a][p] => products[p].seller # a]_vars

\* A seller's attempt to buy their own product was refused.
C10_Witness ==
    /\ last = [fn |-> "purchaseProduct", status |-> "SelfPurchase"]
    /\ \E p \in 1..productCounter : products[p].salesCount > 0

C11_FeeWithdrawalGuarded ==
    [][\A s \in Accounts :
          WithdrawPlatformFees(s) =>
            /\ s # owner => FailsWith("withdrawPlatformFees", "NotPlatformOwner")
            /\ (s = owner /\ platformBalance = 0) =>
                  FailsWith("withdrawPlatformFees", "NothingToWithdraw")
            /\ (s = owner /\ platformBalance > 0) =>
                  /\ stack' = Append(stack, Top')
                  /\ Top'.fn = "withdrawPlatformFees"
                  /\ balanceOf' = balanceOf]_vars

\* The deployer, having handed the role on, was refused while fees were waiting.
C11_Witness ==
    /\ last = [fn |-> "withdrawPlatformFees", status |-> "NotPlatformOwner"]
    /\ owner = "alice"
    /\ platformBalance > 0

\* C12: a fee withdrawal zeroes the accumulated fees before the outbound
\* transfer; when the transfer succeeds exactly the previous amount has moved
\* from custody to Martowner, the account that deployed the ledger, whoever
\* the caller is; when it fails the accumulated fees are back at their
\* previous value and nothing else has changed.
C12_FeesGoToTreasuryOnce ==
    [][(stack # <<>> /\ Top.fn = "withdrawPlatformFees") =>
        LET f == Top
            before == f.saved
        IN /\ platformBalance = 0
           /\ f.amount = before.platformBalance
           /\ f.amount > 0
           /\ Returns("withdrawPlatformFees") =>
                 /\ Martowner = Deployer
                 /\ balanceOf'[Martowner] = before.balanceOf[Martowner] + f.amount
                 /\ balanceOf'[Mart] = before.balanceOf[Mart] - f.amount
                 /\ \A h \in Holders \ {Martowner, Mart} :
                       balanceOf'[h] = before.balanceOf[h]
                 /\ platformBalance' = 0
           /\ (TransferReturns(FALSE) \/ TokenReverts) =>
                 /\ platformBalance' = f.amount
                 /\ World' = before
                 /\ last' = [fn |-> "withdrawPlatformFees", status |-> "WithdrawalFailed"]]_vars

\* A later owner withdrew the fees and the deployer's account received them.
C12_Witness ==
    /\ last = [fn |-> "withdrawPlatformFees", status |-> "ok"]
    /\ owner = "alice"
    /\ platformBalance = 0
    /\ balanceOf[Deployer] > InitialBalance[Deployer]
    /\ balanceOf["alice"] = InitialBalance["alice"]

\* C13: the fee rate is within 0..2000 in every state; setFeeRate by an
\* account that is not the owner fails, by the owner with a rate above 2000
\* fails with FeeTooHigh, both leaving the rate as it was; only a successful
\* setFeeRate changes the rate.
C13_FeeRateBounded ==
    [][/\ platformFeePercentage \in 0..MaxFeeBps
       /\ platformFeePercentage' \in 0..MaxFeeBps
       /\ \A s \in Accounts, r \in RateArgs :
             SetFeeRate(s, r) =>
               /\ s # owner => FailsWith("setFeeRate", "NotPlatformOwner")
               /\ (s = owner /\ r > MaxFeeBps) => FailsWith("setFeeRate", "FeeTooHigh")
               /\ (s = owner /\ r <= MaxFeeBps) => platformFeePercentage' = r
       /\ platformFeePercentage' # platformFeePercentage =>
             last' = [fn |-> "setFeeRate", status |-> "ok"]]_vars

\* The owner raised the rate to the cap and was then refused a higher one.
C13_Witness ==
    /\ last = [fn |-> "setFeeRate", status |-> "FeeTooHigh"]
    /\ platformFeePercentage = MaxFeeBps

\* The requires of purchaseProduct (lines 92-95) pass for buyer b in world w.
PassesChecks(w, b, p) ==
    /\ w.products[p].id # 0
    /\ w.products[p].active
    /\ w.products[p].seller # b
    /\ ~w.hasPurchased[b][p]

\* ... and b holds and has approved the price, so the purchase succeeds.
CanBuy(w, b, p) ==
    /\ PassesChecks(w, b, p)
    /\ w.balanceOf[b] >= w.products[p].price
    /\ w.allowance[b] >= w.products[p].price

\* The world after b's purchase of p settled in world w.
Bought(w, b, p) ==
    LET product == w.products[p]
        fee == (product.price * w.platformFeePercentage) \div BasisPoints
        net == product.price - fee
    IN [w EXCEPT !.balanceOf[b] = @ - product.price,
                 !.balanceOf[Mart] = @ + product.price,
                 !.allowance[b] = @ - product.price,
                 !.sellers[product.seller].balance = @ + net,
                 !.sellers[product.seller].totalSales = @ + 1,
                 !.sellers[product.seller].totalEarnings = @ + net,
                 !.platformBalance = @ + fee,
                 !.hasPurchased[b][p] = TRUE,
                 !.productPurchasers[p] = Append(@, b),
                 !.products[p].salesCount = @ + 1,
                 !.events["ProductPurchased"] = Append(@,
                     [productId |-> p, buyer |-> b, seller |-> product.seller,
                      price |-> product.price, platformFee |-> fee])]

\* A world with the purchaser histories and the log read without their order.
Unordered(w) ==
    [w EXCEPT !.productPurchasers =
                  [i \in ProductIds |-> {w.productPurchasers[i][k] :
                                            k \in DOMAIN w.productPurchasers[i]}],
              !.events = [e \in EventNames |-> {w.events[e][k] : k \in DOMAIN w.events[e]}]]

\* C14: when two distinct buyers can each buy the same product, each can
\* still buy it after the other has, and the two serialization orders end in
\* the same seller balance, earnings, fees, purchase facts, salesCount and
\* totalSales, differing only in the order of the purchaser history and of
\* the log.  (Bought and CanBuy are what the purchase steps do: the first
\* three conjuncts.)
C14_RacingPurchasesCommute ==
    [][/\ Returns("purchaseProduct") =>
             (CanBuy(World, Top.sender, Top.pid) /\ World' = Bought(World, Top.sender, Top.pid))
       /\ \A b \in Accounts, p \in ProductIds :
             (stack = <<>> /\ PurchaseProduct(b, p)) =>
                 (PassesChecks(World, b, p) <=> stack' # stack)
       /\ (stack # <<>> /\ Top.fn = "purchaseProduct") =>
             (CanBuy(World, Top.sender, Top.pid) <=> ENABLED TransferFromReturns(TRUE))
       /\ stack = <<>> =>
             \A p \in 1..productCounter, b1, b2 \in Accounts :
                (b1 # b2 /\ CanBuy(World, b1, p) /\ CanBuy(World, b2, p)) =>
                    LET first == Bought(Bought(World, b1, p), b2, p)
                        second == Bought(Bought(World, b2, p), b1, p)
                    IN /\ CanBuy(Bought(World, b1, p), b2, p)
                       /\ Unordered(first) = Unordered(second)
                       /\ first.productPurchasers[p] =
                              World.productPurchasers[p] \o <<b1, b2>>
                       /\ second.productPurchasers[p] =
                              World.productPurchasers[p] \o <<b2, b1>>]_vars

\* Two buyers bought the same product; the one that approved last settled first.
C14_Witness ==
    /\ stack = <<>>
    /\ productPurchasers[1] = <<"owner", "bob">>
    /\ products[1].salesCount = 2
    /\ sellers[products[1].seller].totalEarnings = 1800

\* C15: a seller's withdrawable balance decreases only in that seller's own
\* withdraw, which sets it to exactly zero (and a withdraw that then fails puts
\* it back); a seller's totalEarnings never decreases, is left alone by
\* withdrawals, and grows only by price - fee of a settled sale of theirs.
C15_BalanceDropsOnlyOnWithdraw ==
    [][\A s \in Accounts :
          /\ sellers'[s].totalEarnings >= sellers[s].totalEarnings
          /\ sellers'[s].totalEarnings > sellers[s].totalEarnings =>
                /\ Returns("purchaseProduct")
                /\ products[Top.pid].seller = s
                /\ sellers'[s].totalEarnings - sellers[s].totalEarnings =
                      products[Top.pid].price -
                        (products[Top.pid].price * platformFeePercentage) \div BasisPoints
          /\ sellers'[s].balance < sellers[s].balance =>
                /\ WithdrawSellerBalance(s)
                /\ sellers'[s].balance = 0
          /\ (stack # <<>> /\ stack' = <<>>) =>
                LET f == stack[1] IN
                /\ sellers'[s].balance < f.saved.sellers[s].balance =>
                      /\ f.fn = "withdrawSellerBalance"
                      /\ f.sender = s
                      /\ last'.status = "ok"
                      /\ sellers'[s].balance = 0
                /\ f.fn # "purchaseProduct" =>
                      sellers'[s].totalEarnings = f.saved.sellers[s].totalEarnings]_vars

\* A seller earned, withdrew everything, and earned again.
C15_Witness ==
    /\ stack = <<>>
    /\ \E s \in Accounts :
          /\ \E i \in DOMAIN SellerWithdrawalLog : SellerWithdrawalLog[i].seller = s
          /\ sellers[s].balance > 0
          /\ sellers[s].totalEarnings > sellers[s].balance

\* What C16 says of every operation but a purchase.
FeesDropOnlyOnWithdrawal ==
    /\ platformBalance' < platformBalance =>
          /\ WithdrawPlatformFees(owner)
          /\ platformBalance' = 0
    /\ (stack = <<>> /\ platformBalance' # platformBalance) =>
          (WithdrawPlatformFees(owner) /\ stack' # <<>>)
    /\ (stack # <<>> /\ stack' = <<>>) =>
          LET f == stack[1] IN
          /\ platformBalance' < f.saved.platformBalance =>
                /\ f.fn = "withdrawPlatformFees"
                /\ last'.status = "ok"
                /\ platformBalance' = 0
          /\ platformBalance' > f.saved.platformBalance =>
                (f.fn = "purchaseProduct" /\ last'.status = "ok")
          /\ (f.fn = "withdrawPlatformFees" /\ last'.status = "ok") => platformBalance' = 0

\* C16 as stated: the accumulated fees increase on every successful
\* purchase, decrease only in a successful fee withdrawal, which sets them
\* to zero, and no other operation changes them.
C16_AsStated ==
    [][/\ Returns("purchaseProduct") => platformBalance' > platformBalance
       /\ FeesDropOnlyOnWithdrawal]_vars

\* C16 amended: a successful purchase adds exactly its fee,
\* floor(price * rate / 10000), to the accumulated fees, which is nothing
\* when price * rate < 10000; the accumulated fees decrease only in a
\* successful fee withdrawal, which sets them to zero, and no other
\* operation changes them.
C16_FeesGrowByTheFee ==
    [][/\ Returns("purchaseProduct") =>
             LET price == products[Top.pid].price
                 fee == (price * platformFeePercentage) \div BasisPoints
             IN /\ platformBalance' = platformBalance + fee
                /\ fee >= 0
                /\ fee = 0 <=> price * platformFeePercentage < BasisPoints
       /\ FeesDropOnlyOnWithdrawal]_vars

\* A purchase at price 7 and 10% settled without adding to the fees.
C16_Witness ==
    /\ last = [fn |-> "purchaseProduct", status |-> "ok"]
    /\ PurchasedLog # <<>>
    /\ PurchasedLog[Len(PurchasedLog)].price = 7
    /\ PurchasedLog[Len(PurchasedLog)].platformFee = 0

\* C17 as stated: every listed product has a positive price in every
\* state; a list with price 0 fails with InvalidPrice and a setPrice with
\* newPrice 0 fails with InvalidPrice, each changing nothing.
C17_AsStated ==
    [][/\ \A i \in 1..productCounter : products[i].price > 0
       /\ \A i \in 1..productCounter' : products'[i].price > 0
       /\ \A s \in Accounts, c \in Cids, n \in Names :
             ListProduct(s, c, 0, n) => FailsWith("listProduct", "InvalidPrice")
       /\ \A s \in Accounts, i \in ProductIds :
             SetPrice(s, i, 0) => FailsWith("setPrice", "InvalidPrice")]_vars

\* C17 amended: every listed product has a positive price in every state; a
\* list with price 0 fails and changes nothing, with InvalidPrice unless the
\* content pointer is empty, which is reported first as
\* InvalidContentPointer; a setPrice with newPrice 0 fails and changes
\* nothing, with InvalidPrice when the caller is the product's seller and
\* with the failure of the existence or ownership check otherwise.
C17_PriceStaysPositive ==
    [][/\ \A i \in 1..productCounter : products[i].price > 0
       /\ \A i \in 1..productCounter' : products'[i].price > 0
       /\ \A s \in Accounts, c \in Cids, n \in Names :
             ListProduct(s, c, 0, n) =>
                 FailsWith("listProduct",
                           IF c = "" THEN "InvalidContentPointer" ELSE "InvalidPrice")
       /\ \A s \in Accounts, i \in ProductIds :
             SetPrice(s, i, 0) =>
                 FailsWith("setPrice",
                           IF i \notin 1..productCounter THEN "ProductNotFound"
                           ELSE IF products[i].seller # s THEN "NotOwner"
                           ELSE "InvalidPrice")]_vars

\* The seller of a repriced product was refused a price of zero.
C17_Witness ==
    /\ last = [fn |-> "setPrice", status |-> "InvalidPrice"]
    /\ \E i \in 1..productCounter : products[i].price = 7

\* C18: ids are handed out in sequence from 1: a successful list stores its
\* product under productCounter + 1, active, with no sales, and advances the
\* counter by one; a list that fails validation changes nothing; the
\* existing products are exactly ids 1..productCounter, id 0 is never one of
\* them, and no operation changes a product's id or seller.
C18_IdsSequentialFromOne ==
    [][/\ \A i \in ProductIds : (products[i].id # 0) <=> (i \in 1..productCounter)
       /\ \A i \in 1..productCounter : products[i].id = i /\ products[i].seller \in Accounts
       /\ products[0] = NoProduct
       /\ \A i \in 1..productCounter :
             products'[i].id = i /\ products'[i].seller = products[i].seller
       /\ productCounter' \in {productCounter, productCounter + 1}
       /\ Len(events["ProductListed"]) = productCounter
       /\ \A k \in 1..productCounter : events["ProductListed"][k].productId = k
       /\ \A s \in Accounts, c \in Cids, p \in Prices, n \in Names :
             ListProduct(s, c, p, n) =>
                 IF c = "" \/ p = 0 \/ n = ""
                 THEN /\ World' = World
                      /\ last'.fn = "listProduct" /\ last'.status # "ok"
                 ELSE /\ productCounter' = productCounter + 1
                      /\ products'[productCounter'] =
                            [id |-> productCounter + 1, seller |-> s, cid |-> c,
                             price |-> p, name |-> n, active |-> TRUE, salesCount |-> 0]
                      /\ last' = [fn |-> "listProduct", status |-> "ok"]
       /\ productCounter' # productCounter =>
             last' = [fn |-> "listProduct", status |-> "ok"]]_vars

\* The second listing got id 2 after a failed listing in between, and
\* product 1 has been sold meanwhile.
C18_Witness ==
    /\ last = [fn |-> "listProduct", status |-> "ok"]
    /\ productCounter = 2
    /\ products[2].id = 2
    /\ products[1].seller # products[2].seller
    /\ products[1].salesCount > 0

\* The sum of price - fee over the records of seller s in a purchase log.
RECURSIVE NetOf(_, _)
NetOf(log, s) ==
    IF log = <<>> THEN 0
    ELSE (IF Head(log).seller = s THEN Head(log).price - Head(log).platformFee ELSE 0)
         + NetOf(Tail(log), s)

\* The log of world w accounts for its purchase facts and its earnings.
Faithful(w) ==
    LET log == w.events["ProductPurchased"]
        pairs == {<<log[i].buyer, log[i].productId>> : i \in DOMAIN log}
    IN /\ pairs = {x \in Accounts \X ProductIds : w.hasPurchased[x[1]][x[2]]}
       /\ Cardinality(pairs) = Len(log)
       /\ \A s \in Accounts : NetOf(log, s) = w.sellers[s].totalEarnings

\* C19: a successful purchase appends exactly one record (productId, buyer,
\* seller, price, fee) to the ProductPurchased log and nothing else does; so
\* in every state the (buyer, productId) pairs of the log are the pairs for
\* which hasPurchased holds, one record each, and for every seller the sum
\* of price - fee over the seller's records is the seller's totalEarnings.
C19_LogIsFaithful ==
    [][/\ IF Returns("purchaseProduct")
          THEN PurchasedLog' = Append(PurchasedLog,
                   [productId |-> Top.pid, buyer |-> Top.sender,
                    seller |-> products[Top.pid].seller,
                    price |-> balanceOf[Top.sender] - balanceOf'[Top.sender],
                    platformFee |-> platformBalance' - platformBalance])
          ELSE PurchasedLog' = PurchasedLog
       /\ Faithful(World')]_vars

\* Two sales at different prices and fee rates are on the log, and a
\* purchase has just failed without leaving a record.
C19_Witness ==
    /\ last = [fn |-> "purchaseProduct", status |-> "AlreadyOwned"]
    /\ Len(PurchasedLog) = 2
    /\ PurchasedLog[1].price # PurchasedLog[2].price
    /\ PurchasedLog[1].platformFee * PurchasedLog[2].price #
           PurchasedLog[2].platformFee * PurchasedLog[1].price

\* C20: the purchase dialog calls purchaseProduct only while the buyer's
\* on-chain allowance for the ledger is at least the price, and never on
\* the confirmation of the approve(0) transaction alone.
C20_AsStated ==
    \A i \in DOMAIN modal.purchases :
        /\ modal.purchases[i].onchain >= ModalPrice
        /\ ~modal.purchases[i].afterZero

\* C23 as stated: even when the token's pull-transfer calls back into
\* purchaseProduct for the same (buyer, productId) before it returns, at most
\* one purchase settles for the pair: the buyer is in the product's purchaser
\* history once, has one record on the log, and the product's salesCount
\* and the seller's totalSales count the pair once.
C23_AsStated ==
    \A p \in ProductIds :
        /\ \A b \in Accounts :
              /\ Cardinality({k \in DOMAIN productPurchasers[p] :
                                 productPurchasers[p][k] = b}) <= 1
              /\ Cardinality(RecordsOf(b, p)) <= 1
        /\ products[p].salesCount <=
              Cardinality({b \in Accounts : hasPurchased[b][p]})

\* The sum of f[x] over the set S.
RECURSIVE SumOver(_, _)
SumOver(f, S) ==
    IF S = {} THEN 0
    ELSE LET x == CHOOSE y \in S : TRUE IN f[x] + SumOver(f, S \ {x})

\* What the ledger owes in world w: the sellers' withdrawable balances and the fees.
Owed(w) == SumOver([a \in Accounts |-> w.sellers[a].balance], Accounts) + w.platformBalance

\* C24: between transactions, and while a purchase waits for its pull, the
\* tokens the ledger holds in custody equal the sellers' withdrawable
\* balances plus the accumulated fees; while a withdrawal waits for its
\* transfer, custody exceeds what is still owed by exactly the non-zero
\* amount being paid, so the transfer can be made in full.
C24_CustodyCoversClaims ==
    /\ (stack = <<>> \/ Top.fn = "purchaseProduct") => balanceOf[Mart] = Owed(World)
    /\ (stack # <<>> /\ Top.fn # "purchaseProduct") =>
          /\ Top.amount > 0
          /\ balanceOf[Mart] = Owed(World) + Top.amount
          /\ balanceOf[Mart] >= Top.amount
          /\ ENABLED TransferReturns(TRUE)

\* Seller and owner have both withdrawn, and custody still covers a claim.
C24_Witness ==
    /\ stack = <<>>
    /\ SellerWithdrawalLog # <<>>
    /\ events["PlatformWithdrawal"] # <<>>
    /\ balanceOf[Mart] > 0
    /\ platformBalance > 0
    /\ \E s \in Accounts : sellers[s].balance > 0

\* The sales statistics of world w agree with its purchase facts.
StatsAgree(w) ==
    /\ \A p \in ProductIds :
          LET history == w.productPurchasers[p]
              buyers == {b \in Accounts : w.hasPurchased[b][p]}
          IN /\ w.products[p].salesCount = Len(history)
             /\ w.products[p].salesCount = Cardinality(buyers)
             /\ {history[k] : k \in DOMAIN history} = buyers
    /\ \A s \in Accounts :
          /\ w.sellers[s].totalSales =
                SumOver([p \in ProductIds |-> w.products[p].salesCount],
                        {p \in ProductIds : w.products[p].seller = s})
          /\ {w.sellers[s].productIds[k] : k \in DOMAIN w.sellers[s].productIds} =
                {p \in 1..w.productCounter : w.products[p].seller = s}

\* C25: in every state, for every product salesCount is the length of its
\* purchaser history and the number of accounts holding its purchase fact,
\* the history lists exactly those accounts, none twice; for every seller
\* totalSales is the sum of salesCount over the products the seller listed.
C25_StatisticsMatchFacts == StatsAgree(World)

\* Two sellers, one of them with two buyers of the same product.
C25_Witness ==
    /\ stack = <<>>
    /\ productCounter = 2
    /\ products[1].seller # products[2].seller
    /\ \E p \in 1..productCounter :
          /\ products[p].salesCount = 2
          /\ sellers[products[p].seller].totalSales = 2

\* The carts in localStorage, as deserializeCart reads them.
PersistedCart(w) == IF cart.storage[w] = <<>> THEN <<>> ELSE DeserializeCart(cart.storage[w][1])

\* C21 as stated: the cart stored under a wallet's key holds only items added
\* while that wallet was connected, in every state; once a switch has settled
\* the displayed items are the connected wallet's stored cart; with no wallet
\* connected the displayed cart is empty.
C21_AsStated ==
    /\ \A w \in CartWallets :
          \A i \in DOMAIN PersistedCart(w) : PersistedCart(w)[i].addedBy = w
    /\ (CartSettled(cart) /\ cart.address # NoWallet) =>
          cart.items = PersistedCart(cart.address)
    /\ (CartSettled(cart) /\ cart.address = NoWallet) => cart.items = <<>>


\* The entries of the submission log that belong to one checkout run.
SubmittedIn(run) == SelectSeq(checkout.submitted, LAMBDA e : e.run = run)
ApprovesIn(run) == SelectSeq(checkout.approveSent, LAMBDA tx : tx.run = run)

\* Purchases go one by one, in cart order: never two in flight, each
\* submitted with none in flight and after the receipt of the one before it,
\* and the k-th submission of a run is for index k - 1, no product twice.
PurchasesOneByOne ==
    /\ Cardinality(InFlight(checkout)) <= 1
    /\ \A i \in DOMAIN checkout.submitted :
          checkout.submitted[i].inFlight = 0 /\ checkout.submitted[i].afterReceipt
    /\ \A run \in 1..checkout.runs :
          LET log == SubmittedIn(run) IN
          \A i \in DOMAIN log :
              /\ log[i].index = i - 1
              /\ \A j \in DOMAIN log : log[j].productId = log[i].productId => j = i

PurchasedItemsConfirmed ==
    LET log == SubmittedIn(checkout.runs)
        confirmed == {i \in DOMAIN log : PurchaseReceipt(log[i])}
    IN
    /\ \A n \in DOMAIN checkout.purchasedItems :
          \E i \in confirmed : log[i].productId = checkout.purchasedItems[n]
    /\ checkout.checkoutStep = "purchasing" =>
          /\ checkout.currentItemIndex = Len(checkout.purchasedItems)
          /\ checkout.currentItemIndex <= Cardinality(confirmed)
          /\ Cardinality(confirmed) <= checkout.currentItemIndex + 1

\* The checkout turns to 'success' (and clears the cart).
TurnsToSuccess ==
    checkout.checkoutStep # "success" /\ checkout'.checkoutStep = "success"

\* The connected wallet holds a confirmed purchase of every item in the cart.
WholeCartConfirmed ==
    \A i \in DOMAIN cart.items :
        PurchaseReceipt([buyer |-> cart.address, productId |-> cart.items[i].productId])

\* C26 as stated: a product id enters purchasedItems, and the index advances
\* by one, only on the receipt of that item's own purchase; the checkout
\* turns to 'success' and clears the cart only if a purchase was confirmed
\* for every item in the cart.
C26_AsStated ==
    [][/\ PurchasedItemsConfirmed'
       /\ TurnsToSuccess => WholeCartConfirmed]_vars

\* C27 as stated: a checkout retried after a failure never submits
\* purchaseProduct for a product whose purchase the sender already holds
\* from the earlier attempt, so the ledger does not answer AlreadyOwned.
C27_AsStated ==
    \A i \in DOMAIN checkout.submitted :
        LET e == checkout.submitted[i] IN
        e.run > 1 => ~e.owned

\* C28 as stated: without a stored marker hasNewPurchases is false (the
\* first fetch stores the newest record as seen); once purchases were marked
\* as seen, hasNewPurchases is true exactly when the fetched records hold a
\* purchase made after the last mark, so a refetch of the same records
\* after clearNewPurchaseNotification leaves it false.
C28_AsStated ==
    /\ feed.lastSeen = <<>> => ~feed.hasNewPurchases
    /\ feed.marked =>
          (feed.hasNewPurchases <=>
               \E i \in DOMAIN feed.purchases : feed.purchases[i].log > feed.seenLog)

\* C29 as stated: after every completed fetch purchasedProductIds has no
\* duplicates and holds exactly the products the ledger says the wallet
\* purchased, whichever strategy produced it.
C29_AsStated ==
    feed.fetches > 0 =>
        LET ids == PurchasedProductIds(feed) IN
        /\ \A i, j \in DOMAIN ids : ids[i] = ids[j] => i = j
        /\ {ids[i] : i \in DOMAIN ids} = feed.owned

====
